---- MODULE Spec2Model ----
(***************************************************************************)
(* Model of the two gallery generators of the portfolio repository:        *)
(*   generate_gallery.py    ("v3": index.html + gallery.html)              *)
(*   generate_gallery_v2.py ("v2": index.html only, plus CSS/JS patches)   *)
(*                                                                         *)
(* Text is modelled as a sequence of tokens; a token is a tuple of strings *)
(* standing for a run of characters that none of the substring searches of *)
(* the programs can match a part of.  Every search of the programs         *)
(* (str.find, `in`, str.replace) is modelled as a search for a token       *)
(* sequence inside a token sequence.  Positions are 0-based and -1 means   *)
(* "not found", as in Python.                                              *)
(***************************************************************************)
EXTENDS Integers, Sequences, FiniteSets, TLC

\* ------------------------------------------------------------------ bounds
MaxRows == 3
MaxRuns == 2

\* ------------------------------------------------------- text primitives
Min(S) == CHOOSE x \in S : \A y \in S : x <= y

\* sub occurs in s at 0-based position i
IsAt(s, sub, i) ==
    /\ i >= 0
    /\ i + Len(sub) <= Len(s)
    /\ \A k \in 1..Len(sub) : s[i + k] = sub[k]

\* str.find(sub, from): lowest position >= from where sub occurs, else -1
Find(s, sub, from) ==
    LET hits == { i \in from..(Len(s) - Len(sub)) : IsAt(s, sub, i) }
    IN  IF hits = {} THEN -1 ELSE Min(hits)

\* `sub in s`
Contains(s, sub) == Find(s, sub, 0) # -1

\* s[a:b] for a, b >= 0
Slice(s, a, b) == SubSeq(s, a + 1, IF b < Len(s) THEN b ELSE Len(s))

\* s[a:]
SliceFrom(s, a) == SubSeq(s, a + 1, Len(s))

RECURSIVE Interleave(_, _)
\* str.replace('', new): new before every element and at the end
Interleave(s, new) ==
    IF s = << >> THEN new
    ELSE new \o << Head(s) >> \o Interleave(Tail(s), new)

RECURSIVE ReplaceFrom(_, _, _)
ReplaceFrom(s, old, new) ==
    IF s = << >> THEN << >>
    ELSE IF IsAt(s, old, 0)
         THEN new \o ReplaceFrom(SliceFrom(s, Len(old)), old, new)
         ELSE << Head(s) >> \o ReplaceFrom(Tail(s), old, new)

\* str.replace(old, new): every non-overlapping occurrence, left to right
Replace(s, old, new) ==
    IF old = << >> THEN Interleave(s, new) ELSE ReplaceFrom(s, old, new)

RECURSIVE Join(_, _)
\* sep.join(parts)
Join(parts, sep) ==
    IF parts = << >> THEN << >>
    ELSE IF Len(parts) = 1 THEN parts[1]
    ELSE parts[1] \o sep \o Join(Tail(parts), sep)

RECURSIVE Concat(_)
\* ''.join(parts)
Concat(parts) == Join(parts, << >>)

\* ----------------------------------------------------------------- tokens
\* a token: a run of characters no search of the programs looks into
T(text) == << text >>

\* a text of one token
Txt(text) == << T(text) >>

\* the line break
NL == Txt("\n")

\* anchors and markers, each one literal of the source
FeaturedMarker == Txt("    <!-- Featured Works Section -->")
TabbedMarker   == Txt("    <!-- Tabbed Gallery Section -->")
GalleryMarker  == Txt("    <!-- Gallery Section -->")
ContactMarker  == Txt("    <!-- Contact Section -->")
FooterMarker   == Txt("    <!-- Footer -->")
CssId          == Txt(".featured-gallery")
CssInsertAfter == Txt("        /* Gallery Section */")
JsId           == Txt("function showTab(")
ScriptMarker   == Txt("        // Smooth scrolling for navigation")
RBrace         == Txt("}")

\* ----------------------------------------------------------- the records
\* str.strip() over the field texts of the data files below
Strip(s) ==
    CASE s = " Delaware " -> "Delaware"
      [] s = "Yes "       -> "Yes"
      [] s = " "          -> ""
      [] OTHER            -> s

\* str.lower() over the same texts
Lower(s) ==
    CASE s = "Boston"   -> "boston"
      [] s = "Misc"     -> "misc"
      [] s = "Delaware" -> "delaware"
      [] s = "Paris"    -> "paris"
      [] s = "Yes"      -> "yes"
      [] OTHER          -> s

\* rows a data file may hold, as written in the file
Row(title, location, filename, featured) ==
    [ title |-> title, location |-> location, filename |-> filename,
      medium |-> "oil", price |-> "100", description |-> "text",
      featured |-> featured ]

RowChoices ==
    { Row("Dawn", "Boston", "dawn.jpg", "yes"),
      Row("Dusk", "boston", "dusk.jpg", ""),
      Row("Mist", "Misc", "mist.jpg", "no"),
      Row("Elm", " Delaware ", "elm.jpg", "Yes "),
      Row(" ", "Paris", "seine.jpg", "no"),
      Row("Fog", "misc", "fog.jpg", "yes") }

\* the image files on disk: <<location directory, file name>>
ImageFiles ==
    { << "boston", "dawn.jpg" >>, << "boston", "dusk.jpg" >>,
      << "misc", "mist.jpg" >>, << "delaware", "elm.jpg" >> }

Locations == << "boston", "delaware", "misc" >>

RequiredFields ==
    << "title", "location", "filename", "medium", "price", "description" >>

\* one row of the file as a painting record
ParseRow(row) ==
    [ title       |-> Strip(row.title),
      location    |-> Lower(Strip(row.location)),
      filename    |-> Strip(row.filename),
      medium      |-> Strip(row.medium),
      price       |-> Strip(row.price),
      description |-> Strip(row.description),
      featured    |-> (Lower(Strip(row.featured)) = "yes") ]

\* the list read_paintings_data builds from the rows of an existing file
read_paintings_data(rows) == [ i \in 1..Len(rows) |-> ParseRow(rows[i]) ]

\* a printed message
Msg(kind, row, arg) == [ kind |-> kind, row |-> row, arg |-> arg ]

\* the reports validate_paintings_data prints for row i, in the order printed
RowReports(painting, i) ==
    LET missing == SelectSeq(RequiredFields, LAMBDA f : painting[f] = "")
    IN  [ k \in 1..Len(missing) |-> Msg("Missing", i, missing[k]) ]
        \o (IF \A k \in 1..Len(Locations) : painting.location # Locations[k]
            THEN << Msg("Invalid location", i, painting.location) >>
            ELSE << >>)
        \o (IF << painting.location, painting.filename >> \notin ImageFiles
            THEN << Msg("Image not found", i, painting.filename) >>
            ELSE << >>)

\* whether row i leaves the flag `valid` of validate_paintings_data alone
RowValid(painting) ==
    /\ \A k \in 1..Len(RequiredFields) : painting[RequiredFields[k]] # ""
    /\ \E k \in 1..Len(Locations) : painting.location = Locations[k]
    /\ << painting.location, painting.filename >> \in ImageFiles

RECURSIVE ReportsFromUntilFirst(_, _)
\* a loop that stops at the first row with a violation
ReportsFromUntilFirst(paintings, i) ==
    IF i > Len(paintings) THEN << >>
    ELSE IF RowReports(paintings[i], i) # << >> THEN RowReports(paintings[i], i)
    ELSE ReportsFromUntilFirst(paintings, i + 1)

RECURSIVE ReportsFrom(_, _)
ReportsFrom(paintings, i) ==
    IF i > Len(paintings) THEN << >>
    ELSE RowReports(paintings[i], i) \o ReportsFrom(paintings, i + 1)

\* a validate_paintings_data for which a missing image is a warning only
validate_paintings_data_image_warns(paintings) ==
    LET valid == \A i \in 1..Len(paintings) :
                   /\ \A k \in 1..Len(RequiredFields) :
                        paintings[i][RequiredFields[k]] # ""
                   /\ \E k \in 1..Len(Locations) :
                        paintings[i].location = Locations[k]
    IN  [ valid |-> valid,
          out   |-> ReportsFrom(paintings, 1) \o
                    (IF valid THEN << Msg("validated", 0, "") >> ELSE << >>) ]

\* validate_paintings_data: what it returns and what it prints
validate_paintings_data(paintings) ==
    LET valid == \A i \in 1..Len(paintings) : RowValid(paintings[i])
    IN  [ valid |-> valid,
          out   |-> ReportsFrom(paintings, 1) \o
                    (IF valid THEN << Msg("validated", 0, "") >> ELSE << >>) ]

\* ------------------------------------------------------------ generators
IsFeatured(p) == p.featured

\* generate_painting_card of generate_gallery.py: the card, no line break
CardToken(p, card_class) ==
    << "card", card_class, p.location, p.filename, p.title, p.medium,
       p.description, p.price >>

generate_painting_card_v3(p) == << CardToken(p, "painting-card") >>

\* generate_painting_card of generate_gallery_v2.py: a line break, then the card
generate_painting_card_v2(p, card_class) == NL \o << CardToken(p, card_class) >>

Cards_v3(ps) ==
    Join([ i \in 1..Len(ps) |-> generate_painting_card_v3(ps[i]) ], NL)

Cards_v2(ps, card_class) ==
    Join([ i \in 1..Len(ps) |-> generate_painting_card_v2(ps[i], card_class) ], NL)

\* generate_featured_section of generate_gallery.py
generate_featured_section_v3(paintings) ==
    LET featured == SelectSeq(paintings, IsFeatured)
    IN  IF featured = << >>
        THEN [ html |-> << >>, out |-> << Msg("No featured paintings", 0, "") >> ]
        ELSE [ html |-> FeaturedMarker \o NL
                        \o Txt("<section class=featured-gallery id=featured> .. <div class=featured-grid>")
                        \o NL \o Cards_v3(featured) \o NL
                        \o Txt("</div> .. view-all-cta .. </section>") \o NL,
               out  |-> << Msg("Generated featured section", Len(featured), "") >> ]

\* generate_featured_section of generate_gallery_v2.py
generate_featured_section_v2(paintings) ==
    LET featured == SelectSeq(paintings, IsFeatured)
    IN  IF featured = << >>
        THEN [ html |-> << >>, out |-> << Msg("No featured paintings", 0, "") >> ]
        ELSE [ html |-> NL \o FeaturedMarker \o NL
                        \o Txt("<section class=featured-gallery> .. <div class=featured-grid>")
                        \o NL \o Cards_v2(featured, "painting-card featured-card") \o NL
                        \o Txt("</div> </section>") \o NL,
               out  |-> << Msg("Generated featured section", Len(featured), "") >> ]

\* a by_location whose 'misc' list takes every painting that is not in boston
ByLocationElse(paintings, loc) ==
    IF loc = "misc"
    THEN SelectSeq(paintings, LAMBDA p : p.location # "boston")
    ELSE SelectSeq(paintings, LAMBDA p : p.location = loc)

\* by_location[loc]
ByLocation(paintings, loc) == SelectSeq(paintings, LAMBDA p : p.location = loc)

TabOpen(loc) == << "tab-content", loc >>
TabClose == T("</div> </div>")

RECURSIVE Tabs_v3_KeepEmpty(_, _)
\* a loop that emits a panel for an empty list too
Tabs_v3_KeepEmpty(paintings, k) ==
    IF k > Len(Locations) THEN << >>
    ELSE LET ps == ByLocation(paintings, Locations[k])
         IN  << << TabOpen(Locations[k]) >> \o NL \o Cards_v3(ps)
                 \o NL \o << TabClose >> >>
             \o Tabs_v3_KeepEmpty(paintings, k + 1)

RECURSIVE Tabs_v3(_, _)
\* the list `tabs` of generate_gallery.py after the loop, from Locations[k] on
Tabs_v3(paintings, k) ==
    IF k > Len(Locations) THEN << >>
    ELSE LET ps == ByLocation(paintings, Locations[k])
         IN  (IF ps = << >> THEN << >>
              ELSE << << TabOpen(Locations[k]) >> \o NL \o Cards_v3(ps)
                      \o NL \o << TabClose >> >>)
             \o Tabs_v3(paintings, k + 1)

RECURSIVE Tabs_v2(_, _)
\* the list `tab_contents` of generate_gallery_v2.py after the loop
Tabs_v2(paintings, k) ==
    IF k > Len(Locations) THEN << >>
    ELSE LET ps == ByLocation(paintings, Locations[k])
         IN  (IF ps = << >> THEN << >>
              ELSE << NL \o << TabOpen(Locations[k]) >> \o NL
                      \o Cards_v2(ps, "painting-card") \o NL \o << TabClose >> >>)
             \o Tabs_v2(paintings, k + 1)

TabbedMsg(paintings) ==
    << Msg("Generated tabbed gallery", Len(paintings), "") >>

\* generate_tabbed_gallery of generate_gallery.py
generate_tabbed_gallery_v3(paintings) ==
    [ html |-> TabbedMarker \o NL
               \o Txt("<div class=gallery-container> .. tab-navigation .. </div>")
               \o NL \o NL \o Join(Tabs_v3(paintings, 1), NL) \o NL
               \o Txt("</div>") \o NL,
      out  |-> TabbedMsg(paintings) ]

\* generate_tabbed_gallery of generate_gallery_v2.py
generate_tabbed_gallery_v2(paintings) ==
    [ html |-> NL \o TabbedMarker \o NL
               \o Txt("<section class=gallery id=gallery> .. tab-navigation .. </div>")
               \o NL \o NL \o Concat(Tabs_v2(paintings, 1)) \o NL
               \o Txt("</section>") \o NL,
      out  |-> TabbedMsg(paintings) ]

\* ------------------------------------------------------------- the files
CSV_FILE       == "paintings-data.csv"
INDEX_FILE     == "index.html"
GALLERY_FILE   == "gallery.html"
INDEX_BACKUP   == "index.html.backup"
GALLERY_BACKUP == "gallery.html.backup"
HTML_FILE      == "index.html"
BACKUP_FILE    == "index.html.backup"

FileNames == { INDEX_FILE, GALLERY_FILE, INDEX_BACKUP, GALLERY_BACKUP }

File(content) == [ exists |-> TRUE, content |-> content ]
NoFile == [ exists |-> FALSE, content |-> << >> ]

\* a file operation, as logged
Op(op, file, by) == [ op |-> op, file |-> file, by |-> by ]

\* a copy that keeps a backup that is already there
CopyIfAbsent(fsys, src, dst) ==
    IF fsys[dst].exists THEN fsys
    ELSE [ fsys EXCEPT ![dst] = File(fsys[src].content) ]

\* shutil.copy(src, dst)
Copy(fsys, src, dst) == [ fsys EXCEPT ![dst] = File(fsys[src].content) ]

\* open(name, 'w').write(content)
Write(fsys, name, content) == [ fsys EXCEPT ![name] = File(content) ]

\* the result of one of the update functions
Result(ret, fsys, o, fileops, sp) ==
    [ ret |-> ret, fs |-> fsys, out |-> o, ops |-> fileops, splice |-> sp ]

\* what one execution of a splice statement read and built
NoSplice ==
    [ file |-> "", before |-> << >>, start_marker |-> << >>,
      end_marker |-> << >>, fragment |-> << >>, after |-> << >> ]

Spliced(file, before, start_marker, end_marker, fragment, after) ==
    [ file |-> file, before |-> before, start_marker |-> start_marker,
      end_marker |-> end_marker, fragment |-> fragment, after |-> after ]

\* a splice that keeps the start anchor and adds a line break after it
SpliceTextAfterAnchor(content, start, end, fragment) ==
    Slice(content, 0, start + 1) \o NL \o fragment \o NL \o SliceFrom(content, end)

\* content[:start] + fragment + '\n' + content[end:]
SpliceText(content, start, end, fragment) ==
    Slice(content, 0, start) \o fragment \o NL \o SliceFrom(content, end)

\* --------------------------------------------- generate_gallery.py updates
IdxStr(i) == CASE i = 1 -> "1" [] i = 2 -> "2" [] OTHER -> "3"

\* '.hero-painting-{i} {'
HeroOpen(i) == << << ".hero-painting-", IdxStr(i), " {" >> >>

\* the block written for hero painting i
HeroBlock(i, painting) ==
    HeroOpen(i)
    \o << << "background-image", painting.location, painting.filename >> >>
    \o RBrace

\* one pass of the loop over hero_paintings
HeroStep(content, i, painting) ==
    IF Contains(content, HeroOpen(i))
    THEN LET start_pos == Find(content, HeroOpen(i), 0)
             end_pos   == Find(content, RBrace, start_pos)
             old_block == Slice(content, start_pos, end_pos + 1)
         IN  Replace(content, old_block, HeroBlock(i, painting))
    ELSE content

RECURSIVE HeroLoop(_, _, _)
HeroLoop(content, hero_paintings, i) ==
    IF i > Len(hero_paintings) THEN content
    ELSE HeroLoop(HeroStep(content, i, hero_paintings[i]), hero_paintings, i + 1)

\* the hero part of update_index_html
HeroPatch(content, paintings) ==
    LET featured == SelectSeq(paintings, IsFeatured)
        hero_paintings == SubSeq(featured, 1, IF Len(featured) < 3 THEN Len(featured) ELSE 3)
    IN  HeroLoop(content, hero_paintings, 1)

\* an update_index_html that opens index.html for writing before it looks
\* for the markers
update_index_html_truncates(fsys, featured_html, paintings) ==
    IF ~fsys[INDEX_FILE].exists
    THEN Result("False", fsys, << Msg("not found", 0, INDEX_FILE) >>, << >>, NoSplice)
    ELSE
      LET fs1     == Copy(fsys, INDEX_FILE, INDEX_BACKUP)
          content == fs1[INDEX_FILE].content
          start   == Find(content, FeaturedMarker, 0)
          end     == Find(content, ContactMarker, 0)
          o1      == << Msg("Created backup", 0, INDEX_BACKUP) >>
          ops1    == << Op("copy", INDEX_BACKUP, "update_index_html"),
                        Op("read", INDEX_FILE, "update_index_html") >>
      IN  IF start = -1 \/ end = -1
          THEN Result("False", Write(fs1, INDEX_FILE, << >>),
                      o1 \o << Msg("Could not find markers", 0, INDEX_FILE) >>,
                      ops1, NoSplice)
          ELSE
            LET content1 == SpliceText(content, start, end, featured_html)
                content2 == HeroPatch(content1, paintings)
            IN  Result("True", Write(fs1, INDEX_FILE, content2),
                       o1 \o << Msg("Updated", 0, INDEX_FILE) >>,
                       ops1 \o << Op("write", INDEX_FILE, "update_index_html") >>,
                       Spliced(INDEX_FILE, content, FeaturedMarker, ContactMarker,
                               featured_html, content1))

update_index_html(fsys, featured_html, paintings) ==
    IF ~fsys[INDEX_FILE].exists
    THEN Result("False", fsys, << Msg("not found", 0, INDEX_FILE) >>, << >>, NoSplice)
    ELSE
      LET fs1     == Copy(fsys, INDEX_FILE, INDEX_BACKUP)
          content == fs1[INDEX_FILE].content
          start   == Find(content, FeaturedMarker, 0)
          end     == Find(content, ContactMarker, 0)
          o1      == << Msg("Created backup", 0, INDEX_BACKUP) >>
          ops1    == << Op("copy", INDEX_BACKUP, "update_index_html"), Op("read", INDEX_FILE, "update_index_html") >>
      IN  IF start = -1 \/ end = -1
          THEN Result("False", fs1, o1 \o << Msg("Could not find markers", 0, INDEX_FILE) >>,
                      ops1, NoSplice)
          ELSE
            LET content1 == SpliceText(content, start, end, featured_html)
                content2 == HeroPatch(content1, paintings)
                hero     == IF SelectSeq(paintings, IsFeatured) # << >>
                            THEN << Msg("Updated hero", 0, "") >> ELSE << >>
            IN  Result("True", Write(fs1, INDEX_FILE, content2),
                       o1 \o hero \o << Msg("Updated", 0, INDEX_FILE) >>,
                       ops1 \o << Op("write", INDEX_FILE, "update_index_html") >>,
                       Spliced(INDEX_FILE, content, FeaturedMarker, ContactMarker,
                               featured_html, content1))

\* an update_gallery_html that makes the backup after it has written
update_gallery_html_backup_last(fsys, gallery_html) ==
    IF ~fsys[GALLERY_FILE].exists
    THEN Result("False", fsys, << Msg("not found", 0, GALLERY_FILE) >>, << >>, NoSplice)
    ELSE
      LET content == fsys[GALLERY_FILE].content
          start   == Find(content, TabbedMarker, 0)
          end     == Find(content, FooterMarker, 0)
      IN  IF start = -1 \/ end = -1
          THEN Result("False", fsys,
                      << Msg("Could not find markers", 0, GALLERY_FILE) >>,
                      << Op("read", GALLERY_FILE, "update_gallery_html") >>, NoSplice)
          ELSE
            LET new_content == SpliceText(content, start, end, gallery_html)
                fs1 == Write(fsys, GALLERY_FILE, new_content)
            IN  Result("True", Copy(fs1, GALLERY_FILE, GALLERY_BACKUP),
                       << Msg("Updated", 0, GALLERY_FILE),
                          Msg("Created backup", 0, GALLERY_BACKUP) >>,
                       << Op("read", GALLERY_FILE, "update_gallery_html"),
                          Op("write", GALLERY_FILE, "update_gallery_html"),
                          Op("copy", GALLERY_BACKUP, "update_gallery_html") >>,
                       Spliced(GALLERY_FILE, content, TabbedMarker, FooterMarker,
                               gallery_html, new_content))

update_gallery_html(fsys, gallery_html) ==
    IF ~fsys[GALLERY_FILE].exists
    THEN Result("False", fsys, << Msg("not found", 0, GALLERY_FILE) >>, << >>, NoSplice)
    ELSE
      LET fs1     == Copy(fsys, GALLERY_FILE, GALLERY_BACKUP)
          content == fs1[GALLERY_FILE].content
          start   == Find(content, TabbedMarker, 0)
          end     == Find(content, FooterMarker, 0)
          o1      == << Msg("Created backup", 0, GALLERY_BACKUP) >>
          ops1    == << Op("copy", GALLERY_BACKUP, "update_gallery_html"), Op("read", GALLERY_FILE, "update_gallery_html") >>
      IN  IF start = -1 \/ end = -1
          THEN Result("False", fs1, o1 \o << Msg("Could not find markers", 0, GALLERY_FILE) >>,
                      ops1, NoSplice)
          ELSE
            LET new_content == SpliceText(content, start, end, gallery_html)
            IN  Result("True", Write(fs1, GALLERY_FILE, new_content),
                       o1 \o << Msg("Updated", 0, GALLERY_FILE) >>,
                       ops1 \o << Op("write", GALLERY_FILE, "update_gallery_html") >>,
                       Spliced(GALLERY_FILE, content, TabbedMarker, FooterMarker,
                               gallery_html, new_content))

\* ------------------------------------------ generate_gallery_v2.py updates
\* the text update_css_styles inserts
new_css ==
    NL \o Txt("        /* Featured Works Section */") \o NL \o CssId
    \o Txt(" .. featured grid, tab navigation and tab content rules ..") \o NL

\* the text add_tab_javascript inserts
tab_js ==
    NL \o Txt("        // Tab switching functionality") \o NL \o JsId
    \o Txt("tabName) .. DOMContentLoaded listener ..") \o NL

\* the start marker update_html_file picks
StartMarker(content) ==
    IF Contains(content, FeaturedMarker) THEN FeaturedMarker
    ELSE IF Contains(content, TabbedMarker) THEN TabbedMarker
    ELSE GalleryMarker

\* update_html_file; ret is "raise" when open() raises FileNotFoundError
update_html_file(fsys, html_file, featured_html, gallery_html) ==
    IF ~fsys[html_file].exists
    THEN Result("raise", fsys, << >>, << >>, NoSplice)
    ELSE
      LET fs1          == Copy(fsys, html_file, BACKUP_FILE)
          content      == fs1[html_file].content
          start_marker == StartMarker(content)
          end_marker   == ContactMarker
          start_idx    == Find(content, start_marker, 0)
          end_idx      == Find(content, end_marker, 0)
          o1           == << Msg("Created backup", 0, BACKUP_FILE) >>
          ops1         == << Op("copy", BACKUP_FILE, "update_html_file"), Op("read", html_file, "update_html_file") >>
      IN  IF start_idx = -1 \/ end_idx = -1
          THEN Result("False", fs1,
                      o1 \o << Msg("Could not find markers", 0, html_file) >>,
                      ops1, NoSplice)
          ELSE
            LET new_sections == featured_html \o NL \o gallery_html \o NL \o NL
                new_content  == Slice(content, 0, start_idx) \o new_sections
                                \o SliceFrom(content, end_idx)
            IN  Result("True", Write(fs1, html_file, new_content),
                       o1 \o << Msg("Updated", 0, html_file) >>,
                       ops1 \o << Op("write", html_file, "update_html_file") >>,
                       Spliced(html_file, content, start_marker, end_marker,
                               featured_html \o NL \o gallery_html \o NL,
                               new_content))

\* an update_css_styles without the check for styles already present
update_css_styles_unguarded(fsys, html_file) ==
    LET content == fsys[html_file].content
    IN  Result("None",
               Write(fsys, html_file,
                     Replace(content, CssInsertAfter, CssInsertAfter \o new_css)),
               << Msg("Added CSS styles", 0, "") >>,
               << Op("read", html_file, "update_css_styles"),
                  Op("write", html_file, "update_css_styles") >>, NoSplice)

update_css_styles(fsys, html_file) ==
    LET content == fsys[html_file].content
    IN  IF Contains(content, CssId)
        THEN Result("None", fsys, << Msg("CSS styles already present", 0, "") >>,
                    << Op("read", html_file, "update_css_styles") >>, NoSplice)
        ELSE Result("None",
                    Write(fsys, html_file,
                          Replace(content, CssInsertAfter, CssInsertAfter \o new_css)),
                    << Msg("Added CSS styles", 0, "") >>,
                    << Op("read", html_file, "update_css_styles"), Op("write", html_file, "update_css_styles") >>, NoSplice)

add_tab_javascript(fsys, html_file) ==
    LET content == fsys[html_file].content
    IN  IF Contains(content, JsId)
        THEN Result("None", fsys, << Msg("Tab JavaScript already present", 0, "") >>,
                    << Op("read", html_file, "add_tab_javascript") >>, NoSplice)
        ELSE Result("None",
                    Write(fsys, html_file,
                          Replace(content, ScriptMarker,
                                  tab_js \o NL \o Txt("        ") \o ScriptMarker)),
                    << Msg("Added tab JavaScript", 0, "") >>,
                    << Op("read", html_file, "add_tab_javascript"), Op("write", html_file, "add_tab_javascript") >>, NoSplice)

\* ------------------------------------------------------- the documents
Old == Txt("<section> .. the section as last published .. </section>")

\* a page as first written by hand for generate_gallery_v2.py
PageGallery ==
    Txt("<html> <head> <style>") \o NL \o CssInsertAfter \o NL
    \o Txt(".gallery rules") \o NL \o Txt("</style> </head> <body>") \o NL
    \o GalleryMarker \o NL \o Old \o NL \o ContactMarker \o NL
    \o Txt("<section id=contact> .. <script>") \o NL \o ScriptMarker \o NL
    \o Txt("</script> </body> </html>")

\* a page as written by hand for generate_gallery.py, with its own style rules
PageFeatured ==
    Txt("<html> <head> <style>") \o NL \o HeroOpen(1)
    \o Txt("background: linear-gradient") \o RBrace \o NL \o CssInsertAfter \o NL
    \o CssId \o Txt(" rules written by hand") \o NL
    \o Txt("</style> </head> <body>") \o NL
    \o FeaturedMarker \o NL \o Old \o NL \o ContactMarker \o NL
    \o Txt("<section id=contact> .. <script>") \o NL \o ScriptMarker \o NL
    \o Txt("</script> </body> </html>")

\* a page that holds the tabbed gallery only
PageTabbed ==
    Txt("<body>") \o NL \o TabbedMarker \o NL \o Old \o NL \o ContactMarker \o NL
    \o Txt("</body>")

\* the end anchor before the start anchor
PageOutOfOrder ==
    Txt("<body>") \o NL \o ContactMarker \o NL \o Old \o NL \o FeaturedMarker \o NL
    \o Txt("</body>")

\* no end anchor
PageNoEnd == Txt("<body>") \o NL \o FeaturedMarker \o NL \o Old \o NL \o Txt("</body>")

\* the start anchor twice, the style and script markers inside the body
PageTwice ==
    FeaturedMarker \o NL \o CssInsertAfter \o NL \o FeaturedMarker \o NL
    \o ContactMarker \o NL \o ScriptMarker \o NL \o ScriptMarker

IndexDocs ==
    { File(PageGallery), File(PageFeatured), File(PageTabbed),
      File(PageOutOfOrder), File(PageNoEnd), File(PageTwice), NoFile }

GalleryPage ==
    Txt("<html> <body>") \o NL \o TabbedMarker \o NL \o Old \o NL \o FooterMarker
    \o NL \o Txt("</body> </html>")

GalleryDocs ==
    { File(GalleryPage),
      File(FooterMarker \o NL \o Old \o NL \o TabbedMarker),
      File(Txt("<html> <body>") \o NL \o Old) }

\* the data files: absent, or any rows up to MaxRows
RowSeqs == UNION { [ 1..n -> RowChoices ] : n \in 0..MaxRows }

CsvFiles == { NoFile } \cup { File(rows) : rows \in RowSeqs }

\* ------------------------------------------------------------- the state
VARIABLES
    script,         \* which generator is run: "v3" or "v2"
    csv,            \* paintings-data.csv
    fs,             \* the target documents and their backups
    pc,             \* the position of main()
    runs,           \* how many runs were started
    paintings,      \* main's list of records
    featured_html,  \* main's featured fragment
    gallery_html,   \* main's tabbed fragment
    out,            \* what this run printed
    ops,            \* the file operations of this run
    result,         \* how this run ended
    pre,            \* the files as they were when this run started
    splice,         \* the last splice statement this run executed
    patched         \* the one-time patches some run has inserted

vars == << script, csv, fs, pc, runs, paintings, featured_html, gallery_html,
           out, ops, result, pre, splice, patched >>

Init ==
    /\ script \in { "v3", "v2" }
    /\ csv \in CsvFiles
    /\ \E index \in IndexDocs :
       \E gallery \in (IF script = "v3" THEN GalleryDocs ELSE { NoFile }) :
          fs = [ f \in FileNames |->
                   IF f = INDEX_FILE THEN index
                   ELSE IF f = GALLERY_FILE THEN gallery
                   ELSE NoFile ]
    /\ pc = "idle"
    /\ runs = 0
    /\ paintings = << >>
    /\ featured_html = << >>
    /\ gallery_html = << >>
    /\ out = << >>
    /\ ops = << >>
    /\ result = "none"
    /\ pre = fs
    /\ splice = NoSplice
    /\ patched = { }

\* a return of main(): the run is over
Return(how) == pc' = "done" /\ result' = how

\* main() is entered and prints its banner
MainStart ==
    /\ pc \in { "idle", "done" }
    /\ runs < MaxRuns
    /\ runs' = runs + 1
    /\ pc' = "read"
    /\ result' = "running"
    /\ paintings' = << >>
    /\ featured_html' = << >>
    /\ gallery_html' = << >>
    /\ out' = << >>
    /\ ops' = << >>
    /\ pre' = fs
    /\ splice' = NoSplice
    /\ UNCHANGED << script, csv, fs, patched >>

\* main(): read_paintings_data and the checks of what it returned
MainRead ==
    /\ pc = "read"
    /\ IF ~csv.exists
       THEN /\ out' = out \o << Msg("Error: not found", 0, CSV_FILE) >>
            /\ paintings' = << >>
            /\ Return("no data file")
       ELSE /\ paintings' = read_paintings_data(csv.content)
            /\ IF paintings' # << >>
               THEN /\ out' = out \o << Msg("Read", Len(paintings'), CSV_FILE) >>
                    /\ pc' = "validate"
                    /\ result' = result
               ELSE /\ out' = out \o << Msg("Read", 0, CSV_FILE) >>
                             \o (IF script = "v2"
                                 THEN << Msg("No paintings found in CSV", 0, "") >>
                                 ELSE << >>)
                    /\ Return("no rows")
    /\ ops' = ops \o (IF csv.exists THEN << Op("read", CSV_FILE, "read_paintings_data") >>
                      ELSE << >>)
    /\ UNCHANGED << script, csv, fs, runs, featured_html, gallery_html, pre,
                    splice, patched >>

\* main(): validate_paintings_data and the return when it fails
MainValidate ==
    /\ pc = "validate"
    /\ LET v == validate_paintings_data(paintings)
       IN  IF v.valid
           THEN /\ out' = out \o v.out
                /\ pc' = "featured"
                /\ result' = result
           ELSE /\ out' = out \o v.out \o << Msg("Fix issues and try again", 0, "") >>
                /\ Return("validation failed")
    /\ UNCHANGED << script, csv, fs, runs, paintings, featured_html, gallery_html,
                    ops, pre, splice, patched >>

\* a main() that gives up when the featured fragment is empty
MainFeaturedAborts ==
    /\ pc = "featured"
    /\ LET g == IF script = "v3" THEN generate_featured_section_v3(paintings)
                ELSE generate_featured_section_v2(paintings)
       IN  /\ featured_html' = g.html
           /\ out' = out \o g.out
           /\ IF g.html = << >> THEN Return("no featured paintings")
              ELSE pc' = "tabbed" /\ result' = result
    /\ UNCHANGED << script, csv, fs, runs, paintings, gallery_html, ops,
                    pre, splice, patched >>

\* main(): featured_html = generate_featured_section(paintings)
MainFeatured ==
    /\ pc = "featured"
    /\ LET g == IF script = "v3" THEN generate_featured_section_v3(paintings)
                ELSE generate_featured_section_v2(paintings)
       IN  /\ featured_html' = g.html
           /\ out' = out \o g.out
    /\ pc' = "tabbed"
    /\ UNCHANGED << script, csv, fs, runs, paintings, gallery_html, ops, result,
                    pre, splice, patched >>

\* main(): gallery_html = generate_tabbed_gallery(paintings)
MainTabbed ==
    /\ pc = "tabbed"
    /\ LET g == IF script = "v3" THEN generate_tabbed_gallery_v3(paintings)
                ELSE generate_tabbed_gallery_v2(paintings)
       IN  /\ gallery_html' = g.html
           /\ out' = out \o g.out
    /\ pc' = IF script = "v3" THEN "update_index" ELSE "update_html"
    /\ UNCHANGED << script, csv, fs, runs, paintings, featured_html, ops, result,
                    pre, splice, patched >>

\* what an update function did, taken over into the state
Apply(r) ==
    /\ fs' = r.fs
    /\ out' = out \o r.out
    /\ ops' = ops \o r.ops
    /\ splice' = IF r.splice = NoSplice THEN splice ELSE r.splice

\* main(): update_index_html, and the return when it fails
UpdateIndexHtml ==
    /\ pc = "update_index"
    /\ LET r == update_index_html(fs, featured_html, paintings)
       IN  /\ Apply(r)
           /\ IF r.ret = "True"
              THEN pc' = "update_gallery" /\ result' = result
              ELSE Return(IF fs[INDEX_FILE].exists THEN "missing anchor"
                          ELSE "missing document")
    /\ UNCHANGED << script, csv, runs, paintings, featured_html, gallery_html,
                    pre, patched >>

\* main(): update_gallery_html, and the return when it fails
UpdateGalleryHtml ==
    /\ pc = "update_gallery"
    /\ LET r == update_gallery_html(fs, gallery_html)
       IN  /\ Apply(r)
           /\ IF r.ret = "True"
              THEN pc' = "summary" /\ result' = result
              ELSE Return(IF fs[GALLERY_FILE].exists THEN "missing anchor"
                          ELSE "missing document")
    /\ UNCHANGED << script, csv, runs, paintings, featured_html, gallery_html,
                    pre, patched >>

\* main(): update_html_file, the return when it fails, the traceback when it raises
UpdateHtmlFile ==
    /\ pc = "update_html"
    /\ LET r == update_html_file(fs, HTML_FILE, featured_html, gallery_html)
       IN  /\ Apply(r)
           /\ IF r.ret = "True"
              THEN pc' = "css" /\ result' = result
              ELSE Return(IF r.ret = "raise" THEN "exception" ELSE "missing anchor")
    /\ UNCHANGED << script, csv, runs, paintings, featured_html, gallery_html,
                    pre, patched >>

\* main(): update_css_styles
UpdateCssStyles ==
    /\ pc = "css"
    /\ LET r == update_css_styles(fs, HTML_FILE)
       IN  /\ Apply(r)
           /\ patched' = IF r.fs[HTML_FILE] # fs[HTML_FILE]
                         THEN patched \cup { "css" } ELSE patched
    /\ pc' = "js"
    /\ UNCHANGED << script, csv, runs, paintings, featured_html, gallery_html,
                    result, pre >>

\* main(): add_tab_javascript
AddTabJavascript ==
    /\ pc = "js"
    /\ LET r == add_tab_javascript(fs, HTML_FILE)
       IN  /\ Apply(r)
           /\ patched' = IF r.fs[HTML_FILE] # fs[HTML_FILE]
                         THEN patched \cup { "js" } ELSE patched
    /\ pc' = "summary"
    /\ UNCHANGED << script, csv, runs, paintings, featured_html, gallery_html,
                    result, pre >>

\* main(): the summary, and the run is over
Summary ==
    /\ pc = "summary"
    /\ out' = out \o << Msg("SUCCESS", 0, "") >>
    /\ Return("success")
    /\ UNCHANGED << script, csv, fs, runs, paintings, featured_html, gallery_html,
                    ops, pre, splice, patched >>

Next ==
    \/ MainStart
    \/ MainRead
    \/ MainValidate
    \/ MainFeatured
    \/ MainTabbed
    \/ UpdateIndexHtml
    \/ UpdateGalleryHtml
    \/ UpdateHtmlFile
    \/ UpdateCssStyles
    \/ AddTabJavascript
    \/ Summary

Spec == Init /\ [][Next]_vars

\* ============================================================ properties
\* sub occurs somewhere in s
Occurs(s, sub) == \E i \in 0..Len(s) : IsAt(s, sub, i)

\* i is the position of the first occurrence of sub in s
FirstAt(s, sub, i) == IsAt(s, sub, i) /\ \A j \in 0..(i - 1) : ~IsAt(s, sub, j)

\* the first occurrence of a precedes the first occurrence of b
InOrder(s, a, b) ==
    \E i, j \in 0..Len(s) : FirstAt(s, a, i) /\ FirstAt(s, b, j) /\ i < j

\* the number of places where sub occurs in s
Count(s, sub) == Cardinality({ i \in 0..Len(s) : IsAt(s, sub, i) })

\* some operation of this run with these properties
DidOp(op, file, by) ==
    \E k \in 1..Len(ops) : ops[k].op = op /\ ops[k].file = file /\ ops[k].by = by
Wrote(file) == \E k \in 1..Len(ops) : ops[k].op = "write" /\ ops[k].file = file
Entered(by) == \E k \in 1..Len(ops) : ops[k].by = by
Printed(kind) == \E k \in 1..Len(out) : out[k].kind = kind

\* a is c before position i, then f, then a line break, then c from position j
IsSplice(a, c, i, f, j) ==
    /\ Len(a) = i + Len(f) + 1 + (Len(c) - j)
    /\ \A k \in 1..i : a[k] = c[k]
    /\ \A k \in 1..Len(f) : a[i + k] = f[k]
    /\ a[i + Len(f) + 1] = NL[1]
    /\ \A k \in 1..(Len(c) - j) : a[i + Len(f) + 1 + k] = c[j + k]

\* a is c through the anchor m at position i, a line break, f, a line break,
\* then c from position j
IsSpliceAfterAnchor(a, c, i, m, f, j) ==
    /\ Len(a) = i + Len(m) + 1 + Len(f) + 1 + (Len(c) - j)
    /\ \A k \in 1..(i + Len(m)) : a[k] = c[k]
    /\ a[i + Len(m) + 1] = NL[1]
    /\ \A k \in 1..Len(f) : a[i + Len(m) + 1 + k] = f[k]
    /\ a[i + Len(m) + 1 + Len(f) + 1] = NL[1]
    /\ \A k \in 1..(Len(c) - j) : a[i + Len(m) + Len(f) + 2 + k] = c[j + k]

\* the splice statement was executed on a text with both anchors in order
SplicedInOrder ==
    /\ splice # NoSplice
    /\ InOrder(splice.before, splice.start_marker, splice.end_marker)

\* the splice of update_gallery_html or update_html_file is what is on disk
\* right after it
JustWritten ==
    \/ splice.file = GALLERY_FILE /\ script = "v3" /\ pc = "summary"
    \/ script = "v2" /\ pc = "css"

\* C1 (as amended): when both anchors occur, the start anchor first, the
\* text the splicer builds is the original text before the start anchor
\* (the anchor not included), then the fragment, then a line break, then the
\* original text from the end anchor on; update_gallery_html and
\* update_html_file write exactly this text (for update_html_file the
\* fragment is featured_html, a line break, gallery_html, a line break).
C1_SpliceReplacesFromStartAnchor ==
    SplicedInOrder =>
        /\ \E i, j \in 0..Len(splice.before) :
              /\ FirstAt(splice.before, splice.start_marker, i)
              /\ FirstAt(splice.before, splice.end_marker, j)
              /\ IsSplice(splice.after, splice.before, i, splice.fragment, j)
        /\ JustWritten => fs[splice.file].content = splice.after

\* C1 witness: on a second run of generate_gallery.py, index.html was spliced
\* and the splice of a non-empty fragment into gallery.html was just written
C1_Witness ==
    /\ SplicedInOrder
    /\ splice.fragment # << >>
    /\ splice.file = GALLERY_FILE
    /\ Wrote(INDEX_FILE)
    /\ pc = "summary"
    /\ runs = 2

\* C1 as stated: the text is the original through the start anchor, a line
\* break, the fragment, a line break, the original from the end anchor on
C1_AsStated ==
    SplicedInOrder =>
        \E i, j \in 0..Len(splice.before) :
           /\ FirstAt(splice.before, splice.start_marker, i)
           /\ FirstAt(splice.before, splice.end_marker, j)
           /\ IsSpliceAfterAnchor(splice.after, splice.before, i,
                                  splice.start_marker, splice.fragment, j)

\* the anchors of a target document of the script occur in the text, the
\* start anchor first
AnchorsInOrder(file, text) ==
    IF file = GALLERY_FILE THEN InOrder(text, TabbedMarker, FooterMarker)
    ELSE IF script = "v3" THEN InOrder(text, FeaturedMarker, ContactMarker)
    ELSE \/ InOrder(text, FeaturedMarker, ContactMarker)
         \/ ~Occurs(text, FeaturedMarker) /\ InOrder(text, TabbedMarker, ContactMarker)
         \/ ~Occurs(text, FeaturedMarker) /\ ~Occurs(text, TabbedMarker)
            /\ InOrder(text, GalleryMarker, ContactMarker)

\* the records of this run passed validation and the run is over
ValidRunDone == pc = "done" /\ Printed("validated")

\* C2 as stated: a second run on the same input, on documents whose anchors
\* are in order, leaves every target document as the first run left it
C2_SecondRunIdentical ==
    ( /\ ValidRunDone
      /\ runs >= 2
      /\ result = "success"
      /\ AnchorsInOrder(INDEX_FILE, pre[INDEX_FILE].content)
      /\ script = "v3" => AnchorsInOrder(GALLERY_FILE, pre[GALLERY_FILE].content) )
    => /\ fs[INDEX_FILE] = pre[INDEX_FILE]
       /\ fs[GALLERY_FILE] = pre[GALLERY_FILE]

\* C3: once validate_paintings_data has reported a violation, the run is
\* over, no generator or splicer step was taken, and every target document
\* and backup is what it was when the run started
ViolationKinds == { "Missing", "Invalid location", "Image not found" }

C3_ValidationFailureWritesNothing ==
    (\E k \in 1..Len(out) : out[k].kind \in ViolationKinds) =>
        /\ pc = "done"
        /\ result = "validation failed"
        /\ fs = pre
        /\ \A k \in 1..Len(ops) : ops[k].op = "read" /\ ops[k].file = CSV_FILE
        /\ featured_html = << >> /\ gallery_html = << >>
        /\ splice = NoSplice

\* C3 witness: on the second run the validator reports a missing image only
C3_Witness ==
    /\ runs = 2
    /\ result = "validation failed"
    /\ \A k \in 1..Len(out) : out[k].kind \in ViolationKinds => out[k].kind = "Image not found"
    /\ fs[INDEX_FILE].exists

\* an anchor the update function `by` looks for is missing from text
AnchorMissing(by, text) ==
    CASE by = "update_index_html" ->
           ~Occurs(text, FeaturedMarker) \/ ~Occurs(text, ContactMarker)
      [] by = "update_gallery_html" ->
           ~Occurs(text, TabbedMarker) \/ ~Occurs(text, FooterMarker)
      [] OTHER ->
           \/ ~Occurs(text, ContactMarker)
           \/ /\ ~Occurs(text, FeaturedMarker)
              /\ ~Occurs(text, TabbedMarker)
              /\ ~Occurs(text, GalleryMarker)

\* the update function `by` was called on `file`, which lacked an anchor
\* (an existing file is copied to its backup as soon as the function is in)
CalledWithoutAnchor(by, file) ==
    /\ Entered(by)
    /\ pre[file].exists
    /\ AnchorMissing(by, pre[file].content)

\* the run stopped in the update function `by`: the report of the missing
\* markers is the last thing printed, the last file operation is the read of
\* `by`, and `file` is as it was
StoppedIn(by, file) ==
    /\ pc = "done"
    /\ result = "missing anchor"
    /\ out[Len(out)] = Msg("Could not find markers", 0, file)
    /\ ops[Len(ops)] = Op("read", file, by)
    /\ fs[file] = pre[file]

\* C4: a splicer called on a document that lacks the start anchor or the end
\* anchor reports it, returns False, leaves the document as it was, and the
\* run stops there, no later update step taken
C4_MissingAnchorLeavesDocument ==
    /\ script = "v3" /\ CalledWithoutAnchor("update_index_html", INDEX_FILE)
          => /\ StoppedIn("update_index_html", INDEX_FILE)
             /\ ~Entered("update_gallery_html")
             /\ fs[GALLERY_FILE] = pre[GALLERY_FILE]
    /\ script = "v3" /\ CalledWithoutAnchor("update_gallery_html", GALLERY_FILE)
          => StoppedIn("update_gallery_html", GALLERY_FILE)
    /\ script = "v2" /\ CalledWithoutAnchor("update_html_file", HTML_FILE)
          => /\ StoppedIn("update_html_file", HTML_FILE)
             /\ ~Entered("update_css_styles")
             /\ ~Entered("add_tab_javascript")

\* C4 witness: update_index_html stopped on a page without the end anchor
C4_Witness ==
    /\ script = "v3"
    /\ CalledWithoutAnchor("update_index_html", INDEX_FILE)
    /\ Occurs(pre[INDEX_FILE].content, FeaturedMarker)
    /\ pc = "done"

\* C5 as stated: the splicer writes only when the first occurrence of the
\* start anchor lies before the first occurrence of the end anchor
C5_SpliceRequiresOrder ==
    splice # NoSplice =>
        InOrder(splice.before, splice.start_marker, splice.end_marker)

\* ---- the tabbed fragment, read back
\* the positions of the panels of a fragment, and of its cards
PanelPositions(html) == { k \in 1..Len(html) : html[k][1] = "tab-content" }
CardPositions(html) == { k \in 1..Len(html) : html[k][1] = "card" }

\* the cards that stand in a panel of location loc
CardsIn(html, loc) ==
    { c \in CardPositions(html) :
        \E k \in PanelPositions(html) :
           /\ k < c
           /\ html[k][2] = loc
           /\ \A m \in PanelPositions(html) : ~(k < m /\ m < c) }

\* the rows of the list with location loc
RecordsAt(list, loc) == { i \in 1..Len(list) : list[i].location = loc }

LocIndex(loc) == CHOOSE k \in 1..Len(Locations) : Locations[k] = loc

\* generate_tabbed_gallery has returned in this run
TabbedDone ==
    \/ pc \in { "update_index", "update_gallery", "update_html", "css", "js", "summary" }
    \/ pc = "done" /\ Printed("Generated tabbed gallery")

\* C6: for each of boston, delaware, misc the tabbed fragment holds, inside
\* that location's panel, as many cards as there are records with that
\* location, each card of a record of that location; every card is in a
\* panel, no location has two panels, and the panels stand in the order
\* boston, delaware, misc
C6_CardsPerPanelAndOrder ==
    TabbedDone =>
        /\ \A n \in 1..Len(Locations) :
              /\ Cardinality(CardsIn(gallery_html, Locations[n]))
                    = Cardinality(RecordsAt(paintings, Locations[n]))
              /\ \A c \in CardsIn(gallery_html, Locations[n]) :
                    gallery_html[c][3] = Locations[n]
        /\ \A c \in CardPositions(gallery_html) :
              \E n \in 1..Len(Locations) : c \in CardsIn(gallery_html, Locations[n])
        /\ \A k, m \in PanelPositions(gallery_html) :
              k < m => LocIndex(gallery_html[k][2]) < LocIndex(gallery_html[m][2])

\* C6 witness: three records given in the order misc, delaware, boston, and
\* three panels
C6_Witness ==
    /\ TabbedDone
    /\ Len(paintings) = 3
    /\ paintings[1].location = "misc"
    /\ paintings[2].location = "delaware"
    /\ paintings[3].location = "boston"
    /\ Cardinality(PanelPositions(gallery_html)) = 3

\* no record is featured
NoneFeatured == paintings # << >> /\ \A i \in 1..Len(paintings) : ~paintings[i].featured

\* the target documents of the script had their anchors when the run started
TargetsReady ==
    /\ pre[INDEX_FILE].exists
    /\ IF script = "v3"
       THEN /\ ~AnchorMissing("update_index_html", pre[INDEX_FILE].content)
            /\ pre[GALLERY_FILE].exists
            /\ ~AnchorMissing("update_gallery_html", pre[GALLERY_FILE].content)
       ELSE ~AnchorMissing("update_html_file", pre[INDEX_FILE].content)

\* C7: with no featured record, generate_featured_section returns the empty
\* text and prints the warning; the splice that follows is made with the
\* empty fragment, and a run whose target documents have their anchors ends
\* in success, every update step taken
C7_NoFeaturedIsNoError ==
    NoneFeatured =>
        /\ (pc = "tabbed" \/ TabbedDone \/ (pc = "done" /\ Printed("validated")))
              => /\ featured_html = << >>
                 /\ Printed("No featured paintings")
                 /\ result \in { "running", "success", "missing anchor",
                                 "missing document", "exception" }
        /\ pc = "update_gallery"
              => splice.file = INDEX_FILE /\ splice.fragment = << >>
        /\ pc = "css"
              => splice.fragment = NL \o gallery_html \o NL
        /\ (pc = "done" /\ Printed("validated") /\ TargetsReady)
              => /\ result = "success"
                 /\ Wrote(INDEX_FILE)
                 /\ script = "v3" => Wrote(GALLERY_FILE)
                 /\ script = "v2" => /\ Entered("update_css_styles")
                                     /\ Entered("add_tab_javascript")

\* C7 witness: a run of generate_gallery.py without featured records ended
\* in success
C7_Witness ==
    /\ NoneFeatured
    /\ script = "v3"
    /\ pc = "done"
    /\ result = "success"
    /\ Printed("No featured paintings")

\* the backup path of a target document
BackupOf(file) == IF file = GALLERY_FILE THEN GALLERY_BACKUP ELSE INDEX_BACKUP

\* C8: once a run has written a target document, the backup of that
\* document is a file with the content the document had when the run
\* started; every copy a run makes goes to the one backup path of the
\* document its function updates
C8_BackupIsPreRunDocument ==
    /\ \A f \in { INDEX_FILE, GALLERY_FILE } :
          Wrote(f) => fs[BackupOf(f)] = pre[f]
    /\ \A k \in 1..Len(ops) :
          ops[k].op = "copy" =>
             ops[k].file = (IF ops[k].by = "update_gallery_html"
                            THEN GALLERY_BACKUP ELSE INDEX_BACKUP)

\* C8 witness: a second run wrote index.html and its backup, which held the
\* first document, now holds what the first run wrote
C8_Witness ==
    /\ runs = 2
    /\ Wrote(INDEX_FILE)
    /\ pre[INDEX_BACKUP].exists
    /\ fs[INDEX_BACKUP] # pre[INDEX_BACKUP]
    /\ fs[INDEX_BACKUP] = pre[INDEX_FILE]

\* C9: at the end of a successful run of generate_gallery_v2.py, in a
\* document whose insertion marker occurs once, the CSS block (the showTab
\* function) that a run has inserted occurs exactly once; and a patch step
\* that finds its identifying text in the document does not write it
C9_PatchesInsertedOnce ==
    script = "v2" =>
        /\ (pc = "done" /\ result = "success") =>
              /\ ("css" \in patched /\ Count(fs[HTML_FILE].content, CssInsertAfter) = 1)
                    => Count(fs[HTML_FILE].content, new_css) = 1
              /\ ("js" \in patched /\ Count(fs[HTML_FILE].content, ScriptMarker) = 1)
                    => Count(fs[HTML_FILE].content, tab_js) = 1
        /\ (Entered("update_css_styles") /\ Occurs(splice.after, CssId))
              => ~DidOp("write", HTML_FILE, "update_css_styles")
        /\ (Entered("add_tab_javascript") /\ Occurs(splice.after, JsId))
              => ~DidOp("write", HTML_FILE, "add_tab_javascript")

\* C9 witness: the second run found both patches of the first run in place
C9_Witness ==
    /\ script = "v2"
    /\ runs = 2
    /\ pc = "done"
    /\ result = "success"
    /\ patched = { "css", "js" }
    /\ Printed("CSS styles already present")
    /\ Printed("Tab JavaScript already present")
    /\ Count(fs[HTML_FILE].content, new_css) = 1
    /\ Count(fs[HTML_FILE].content, tab_js) = 1

\* the titles on the cards of the panel of loc, in their order
PanelTitles(html, loc) ==
    LET S == CardsIn(html, loc)
        Nth(n) == CHOOSE c \in S : Cardinality({ d \in S : d <= c }) = n
    IN  [ n \in 1..Cardinality(S) |-> html[Nth(n)][5] ]

\* the titles of the rows of the data file whose location, trimmed and in
\* lower case, is loc
RowTitles(rows, loc) ==
    LET at == SelectSeq(rows, LAMBDA r : Lower(Strip(r.location)) = loc)
    IN  [ n \in 1..Len(at) |-> Strip(at[n].title) ]

ExampleRows ==
    << Row("Dawn", "Boston", "dawn.jpg", "yes"),
       Row("Dusk", "boston", "dusk.jpg", ""),
       Row("Mist", "Misc", "mist.jpg", "no") >>

\* C10: the tabbed fragment has a panel for a location exactly when some row
\* of the data file has that location once trimmed and put in lower case,
\* and the panel shows those rows in their order; the rows Boston, boston,
\* Misc give a boston panel with the first two, a misc panel with the third
\* and no delaware panel
C10_PanelIffRecords ==
    TabbedDone =>
        /\ \A n \in 1..Len(Locations) :
              /\ (\E k \in PanelPositions(gallery_html) :
                     gallery_html[k][2] = Locations[n])
                 <=> RowTitles(csv.content, Locations[n]) # << >>
              /\ PanelTitles(gallery_html, Locations[n])
                    = RowTitles(csv.content, Locations[n])
        /\ csv.content = ExampleRows =>
              /\ PanelTitles(gallery_html, "boston") = << "Dawn", "Dusk" >>
              /\ PanelTitles(gallery_html, "misc") = << "Mist" >>
              /\ \A k \in PanelPositions(gallery_html) :
                    gallery_html[k][2] # "delaware"

\* C10 witness: the rows Boston, boston, Misc went through the generator
C10_Witness ==
    /\ TabbedDone
    /\ csv.content = ExampleRows
    /\ Cardinality(PanelPositions(gallery_html)) = 2

\* validate_paintings_data has returned in this run
ValidateDone == paintings # << >> /\ pc \notin { "idle", "read", "validate" }

\* the number of violations of a record: its empty required fields, a
\* location outside boston, delaware, misc, an image file that is not there
Violations(p) ==
    Cardinality({ k \in 1..Len(RequiredFields) : p[RequiredFields[k]] = "" })
    + (IF p.location \in { "boston", "delaware", "misc" } THEN 0 ELSE 1)
    + (IF << p.location, p.filename >> \in ImageFiles THEN 0 ELSE 1)

\* the violation reports printed in this run, and those for row i
ReportPositions == { k \in 1..Len(out) : out[k].kind \in ViolationKinds }
ReportsOfRow(i) == { k \in ReportPositions : out[k].row = i }

\* C11: validate_paintings_data goes through every record and every rule:
\* for each row it prints as many reports, with that row's 1-based index, as
\* the row has violations, no report carries another index, and it returns
\* fail exactly when some record has a violation
C11_AllViolationsReported ==
    ValidateDone =>
        /\ \A i \in 1..Len(paintings) :
              Cardinality(ReportsOfRow(i)) = Violations(paintings[i])
        /\ \A k \in ReportPositions : out[k].row \in 1..Len(paintings)
        /\ (result = "validation failed")
              <=> (\E i \in 1..Len(paintings) : Violations(paintings[i]) > 0)
        /\ Printed("validated")
              <=> (\A i \in 1..Len(paintings) : Violations(paintings[i]) = 0)

\* C11 witness: the first row has three violations, the second none, the
\* third one, and all four are reported
C11_Witness ==
    /\ ValidateDone
    /\ Len(paintings) = 3
    /\ Violations(paintings[1]) = 3
    /\ Violations(paintings[2]) = 0
    /\ Violations(paintings[3]) = 1
    /\ Cardinality(ReportPositions) = 4
    /\ result = "validation failed"

\* the messages that diagnose a failure
ErrorKinds ==
    { "Error: not found", "No paintings found in CSV", "Fix issues and try again",
      "not found", "Could not find markers" }

\* C12 as stated: a run that ends without having completed every update
\* step has printed an error diagnosis as its last message, and did not end
\* in an unhandled exception
C12_EveryFailureDiagnosed ==
    (pc = "done" /\ result # "success") =>
        /\ result # "exception"
        /\ out # << >>
        /\ out[Len(out)].kind \in ErrorKinds

\* ---- the order of the steps of a run
\* the step of main() a message belongs to
StepOfMsg(m) ==
    CASE m.kind \in { "Read", "Error: not found", "No paintings found in CSV" } -> 1
      [] m.kind \in ViolationKinds \cup { "validated", "Fix issues and try again" } -> 2
      [] m.kind \in { "No featured paintings", "Generated featured section" } -> 3
      [] m.kind = "Generated tabbed gallery" -> 4
      [] m.kind \in { "CSS styles already present", "Added CSS styles" } -> 6
      [] m.kind \in { "Tab JavaScript already present", "Added tab JavaScript" } -> 7
      [] m.kind = "SUCCESS" -> 8
      [] OTHER -> IF m.arg \in { GALLERY_FILE, GALLERY_BACKUP } THEN 6 ELSE 5

\* the step of main() a file operation belongs to
StepOfOp(o) ==
    CASE o.by = "read_paintings_data" -> 1
      [] o.by \in { "update_index_html", "update_html_file" } -> 5
      [] o.by \in { "update_gallery_html", "update_css_styles" } -> 6
      [] OTHER -> 7

\* messages a step prints once
OncePerStep ==
    { "Read", "validated", "No featured paintings", "Generated featured section",
      "Generated tabbed gallery", "Could not find markers", "SUCCESS" }

\* the splicers
Splicers == { "update_index_html", "update_gallery_html", "update_html_file" }

\* the steps of the run so far are in the order load, validate, generate,
\* splice, none taken twice; a target document is written only after the
\* loader returned records and the validator passed; a write by a splicer
\* comes after the copy of the document to its backup, in the same call, and
\* the document it read had both anchors
StepsInOrder ==
    /\ \A j, k \in 1..Len(out) : j < k => StepOfMsg(out[j]) <= StepOfMsg(out[k])
    /\ \A j, k \in 1..Len(ops) : j < k => StepOfOp(ops[j]) <= StepOfOp(ops[k])
    /\ \A j, k \in 1..Len(out) :
          (j < k /\ out[j].kind \in OncePerStep) => out[j] # out[k]
    /\ \A j, k \in 1..Len(ops) : j < k => ops[j] # ops[k]
    /\ \A k \in 1..Len(ops) :
          ops[k].op = "write" =>
             /\ paintings # << >>
             /\ Printed("validated")
             /\ Printed("Generated tabbed gallery")
             /\ ops[1] = Op("read", CSV_FILE, "read_paintings_data")
             /\ ops[k].by \in Splicers =>
                   /\ \E j \in 1..(k - 1) :
                         ops[j] = Op("copy", BackupOf(ops[k].file), ops[k].by)
                   /\ ~AnchorMissing(ops[k].by, pre[ops[k].file].content)
                   /\ fs[BackupOf(ops[k].file)] = pre[ops[k].file]

\* C13 (as amended): the steps are in order, as above, and the backup is
\* written as soon as a splicer has found its document, before it looks for
\* the anchors: also by a splice that then fails for a missing anchor
C13_StepsInOrderBackupFirst ==
    /\ StepsInOrder
    /\ \A k \in 1..Len(ops) :
          (ops[k].op = "read" /\ ops[k].by \in Splicers) =>
             /\ k > 1
             /\ ops[k - 1] = Op("copy", BackupOf(ops[k].file), ops[k].by)
             /\ fs[BackupOf(ops[k].file)].exists

\* C13 witness: a run of generate_gallery.py wrote index.html after its
\* backup, and then wrote the backup of gallery.html in a splice that failed
\* for a missing anchor
C13_Witness ==
    /\ script = "v3"
    /\ pc = "done"
    /\ result = "missing anchor"
    /\ Len(ops) = 6
    /\ ops[2] = Op("copy", INDEX_BACKUP, "update_index_html")
    /\ ops[4] = Op("write", INDEX_FILE, "update_index_html")
    /\ ops[5] = Op("copy", GALLERY_BACKUP, "update_gallery_html")
    /\ ops[6] = Op("read", GALLERY_FILE, "update_gallery_html")
    /\ fs[GALLERY_FILE] = pre[GALLERY_FILE]

\* C13 as stated: the steps are in order, and a backup is written only by a
\* splice that succeeds
C13_AsStated ==
    /\ StepsInOrder
    /\ pc = "done" =>
          \A k \in 1..Len(ops) :
             ops[k].op = "copy" =>
                \E j \in (k + 1)..Len(ops) :
                   ops[j].op = "write" /\ ops[j].by = ops[k].by

====
